---- MODULE Spec2Model ----
(***************************************************************************)
(* Model of src/app.py: a Streamlit script that loads a scored payments    *)
(* table from S3 through a 60 second result cache and renders KPIs, a      *)
(* fraud-rate series per period, two breakdowns and a detail table.        *)
(* One Render step is one complete run of the script.                      *)
(***************************************************************************)
EXTENDS Integers, Sequences, FiniteSets, TLC

\* storage : the table at reports/full/scored_payments.parquet in the bucket
\* cache   : the st.cache_data entry of load_data (process wide)
\* out     : what the last run of the script put on the page
\* widgets : the input widgets some session has on its page
\* event   : the last thing that happened
VARIABLES storage, cache, out, widgets, event

vars == <<storage, cache, out, widgets, event>>

(***************************************************************************)
(* Bounds of the model                                                     *)
(***************************************************************************)
MaxRows == 2

TickStep == 30

(***************************************************************************)
(* Program constants                                                       *)
(***************************************************************************)
TTL == 60

NaT == -1

Granularities == {"Heure", "Jour", "Semaine", "Mois"}

RequiredTimeCols == {"trans_year", "trans_month", "trans_day", "trans_hour"}

DerivedCols == {"event_time", "period", "state_full"}

US_STATES ==
    ("AL" :> "Alabama") @@ ("AK" :> "Alaska") @@ ("AZ" :> "Arizona") @@ ("AR" :> "Arkansas") @@
    ("CA" :> "California") @@ ("CO" :> "Colorado") @@ ("CT" :> "Connecticut") @@ ("DE" :> "Delaware") @@
    ("FL" :> "Florida") @@ ("GA" :> "Georgia") @@ ("HI" :> "Hawaii") @@ ("ID" :> "Idaho") @@
    ("IL" :> "Illinois") @@ ("IN" :> "Indiana") @@ ("IA" :> "Iowa") @@ ("KS" :> "Kansas") @@
    ("KY" :> "Kentucky") @@ ("LA" :> "Louisiana") @@ ("ME" :> "Maine") @@ ("MD" :> "Maryland") @@
    ("MA" :> "Massachusetts") @@ ("MI" :> "Michigan") @@ ("MN" :> "Minnesota") @@ ("MS" :> "Mississippi") @@
    ("MO" :> "Missouri") @@ ("MT" :> "Montana") @@ ("NE" :> "Nebraska") @@ ("NV" :> "Nevada") @@
    ("NH" :> "New Hampshire") @@ ("NJ" :> "New Jersey") @@ ("NM" :> "New Mexico") @@ ("NY" :> "New York") @@
    ("NC" :> "North Carolina") @@ ("ND" :> "North Dakota") @@ ("OH" :> "Ohio") @@ ("OK" :> "Oklahoma") @@
    ("OR" :> "Oregon") @@ ("PA" :> "Pennsylvania") @@ ("RI" :> "Rhode Island") @@ ("SC" :> "South Carolina") @@
    ("SD" :> "South Dakota") @@ ("TN" :> "Tennessee") @@ ("TX" :> "Texas") @@ ("UT" :> "Utah") @@
    ("VT" :> "Vermont") @@ ("VA" :> "Virginia") @@ ("WA" :> "Washington") @@ ("WV" :> "West Virginia") @@
    ("WI" :> "Wisconsin") @@ ("WY" :> "Wyoming")

(***************************************************************************)
(* Tables.  A table is [cols, rows]: the set of column names and the       *)
(* sequence of rows.  A row carries one cell per modelled column; the      *)
(* cells of a column that is not in cols are never read (components hold   *)
(* 0, the epoch cell holds <<>>, derived cells hold NaT / "").  The epoch  *)
(* cell is the decimal digit string of the value.                          *)
(***************************************************************************)
BaseCols == {"unnamed_0", "amt", "probability", "prediction", "category", "state"}

ComponentCols5 == BaseCols \cup RequiredTimeCols \cup {"trans_minute"}

ComponentCols4 == BaseCols \cup RequiredTimeCols

NoHourCols == BaseCols \cup {"trans_year", "trans_month", "trans_day"}

EpochCols == BaseCols \cup {"epoch"}

Row(y, mo, d, h, mi, ep, p, a, cat, st) ==
    [trans_year |-> y, trans_month |-> mo, trans_day |-> d, trans_hour |-> h,
     trans_minute |-> mi, epoch |-> ep, prediction |-> p, amt |-> a,
     category |-> cat, state |-> st,
     event_time |-> NaT, period |-> NaT, state_full |-> ""]

EmptyTable == [cols |-> {}, rows |-> <<>>]

SeqsUpTo(S, n) == UNION {[1..k -> S] : k \in 0..n}

\* <<month, day, hour, minute>> of 2024: same hour, same day, same week,
\* same month, next month, and two impossible dates
TimePoints ==
    {<<1, 1, 0, 0>>, <<1, 1, 0, 30>>, <<1, 1, 1, 0>>, <<1, 2, 0, 0>>,
     <<1, 8, 0, 0>>, <<2, 1, 0, 0>>, <<2, 30, 0, 0>>, <<13, 1, 0, 0>>}

TimeRows(withMinute) ==
    {Row(2024, tp[1], tp[2], tp[3], IF withMinute THEN tp[4] ELSE 0, <<>>,
         p, 10, "grocery", "CA") : tp \in TimePoints, p \in {0, 1}}

NoHourRows ==
    {Row(2024, tp[1], tp[2], 0, 0, <<>>, p, 10, "grocery", "CA") :
        tp \in {<<1, 1>>, <<2, 1>>}, p \in {0, 1}}

KpiRows ==
    {Row(2024, 1, 1, 0, 0, <<>>, p, a, cat, st) :
        p \in {0, 1, 2}, a \in {-5, 10}, cat \in {"grocery", "travel"}, st \in {"CA", "ZZ"}}

EpochValues ==
    {<<1,7,0,4,0,6,7,2,0,0>>, <<1,7,0,4,0,6,7,2,0,0,0,0,0>>, <<1,7,0,4,0,6,7,2,0>>}

EpochRows ==
    {Row(0, 0, 0, 0, 0, ep, p, 10, "grocery", "CA") : ep \in EpochValues, p \in {0, 1}}

CacheRows ==
    {Row(2024, 1, 1, 0, 0, <<>>, 1, 10, "grocery", "CA"),
     Row(2024, 2, 1, 0, 0, <<>>, 0, 20, "travel", "ZZ")}

TablesOf(cols, rowSet) == {[cols |-> cols, rows |-> rs] : rs \in SeqsUpTo(rowSet, MaxRows)}

PipeTables ==
    TablesOf(ComponentCols5, TimeRows(TRUE)) \cup TablesOf(ComponentCols4, TimeRows(FALSE))
    \cup TablesOf(NoHourCols, NoHourRows) \cup TablesOf(ComponentCols5, KpiRows)
    \cup TablesOf(EpochCols, EpochRows)

CacheTables == TablesOf(ComponentCols5, CacheRows)

(***************************************************************************)
(* Calendar arithmetic: an instant is a number of seconds after            *)
(* 1970-01-01 00:00 (the proleptic Gregorian calendar pandas uses).        *)
(***************************************************************************)
IsLeap(y) == (y % 4 = 0 /\ y % 100 # 0) \/ y % 400 = 0

DaysInMonth(y, m) ==
    IF m = 2 THEN (IF IsLeap(y) THEN 29 ELSE 28)
    ELSE IF m \in {4, 6, 9, 11} THEN 30 ELSE 31

DaysFromCivil(y, m, d) ==
    LET yy  == IF m <= 2 THEN y - 1 ELSE y
        era == yy \div 400
        yoe == yy - era * 400
        mp  == IF m > 2 THEN m - 3 ELSE m + 9
        doy == (153 * mp + 2) \div 5 + d - 1
        doe == yoe * 365 + yoe \div 4 - yoe \div 100 + doy
    IN  era * 146097 + doe - 719468

CivilFromDays(z0) ==
    LET z   == z0 + 719468
        era == z \div 146097
        doe == z - era * 146097
        yoe == (doe - doe \div 1460 + doe \div 36524 - doe \div 146096) \div 365
        doy == doe - (365 * yoe + yoe \div 4 - yoe \div 100)
        mp  == (5 * doy + 2) \div 153
        d   == doy - (153 * mp + 2) \div 5 + 1
        m   == IF mp < 10 THEN mp + 3 ELSE mp - 9
        y   == yoe + era * 400 + (IF m <= 2 THEN 1 ELSE 0)
    IN  <<y, m, d>>

\* pd.to_datetime("Y-MM-DD HH:MM", errors="coerce") of one row
ToDatetime(y, mo, d, h, mi) ==
    IF /\ y \in 1678..2261
       /\ mo \in 1..12
       /\ d \in 1..DaysInMonth(y, mo)
       /\ h \in 0..23
       /\ mi \in 0..59
    THEN DaysFromCivil(y, mo, d) * 86400 + h * 3600 + mi * 60
    ELSE NaT

\* strftime("%Y-%m-%d %H:%M"): <<year, month, day, hour, minute>>, <<>> for NaT
Strftime(t) ==
    IF t = NaT THEN <<>>
    ELSE LET c == CivilFromDays(t \div 86400)
         IN  <<c[1], c[2], c[3], (t % 86400) \div 3600, (t % 3600) \div 60>>

(***************************************************************************)
(* Helpers on sequences of rows                                            *)
(***************************************************************************)
RECURSIVE SeqSum(_)
SeqSum(s) == IF s = <<>> THEN 0 ELSE Head(s) + SeqSum(Tail(s))

Column(rows, c) == [i \in 1..Len(rows) |-> rows[i][c]]

Values(rows, c) == {rows[i][c] : i \in 1..Len(rows)}

IsFraud(r) == r.prediction = 1

FraudRows(rows) == SelectSeq(rows, IsFraud)

RECURSIVE SortedSeq(_)
SortedSeq(S) ==
    IF S = {} THEN <<>>
    ELSE LET m == CHOOSE x \in S : \A z \in S : x <= z
         IN  <<m>> \o SortedSeq(S \ {m})

\* Series.value_counts(): value -> number of rows carrying it
ValueCounts(rows, c) ==
    [v \in Values(rows, c) |-> Cardinality({i \in 1..Len(rows) : rows[i][c] = v})]

(***************************************************************************)
(* KPIs (lines 80-92).  A rate is the exact fraction num/den; nan marks    *)
(* the mean of an empty column.                                            *)
(***************************************************************************)
\* the mean as a fraction, not scaled to a percentage
MeanUnscaled(xs) ==
    IF Len(xs) = 0 THEN [nan |-> TRUE, num |-> 0, den |-> 0]
    ELSE [nan |-> FALSE, num |-> SeqSum(xs), den |-> Len(xs)]

Mean100(xs) ==
    IF Len(xs) = 0 THEN [nan |-> TRUE, num |-> 0, den |-> 0]
    ELSE [nan |-> FALSE, num |-> 100 * SeqSum(xs), den |-> Len(xs)]

\* the amounts weighted by the prediction column instead of filtered by it
WeightedAmount(df) ==
    SeqSum([i \in 1..Len(df.rows) |-> df.rows[i].amt * df.rows[i].prediction])

fraud_amount(df) == SeqSum(Column(FraudRows(df.rows), "amt"))

NoKPIs == [total |-> 0, frauds |-> 0, rate |-> Mean100(<<>>), amount |-> 0, fraud_amount |-> 0]

KPIs(df) ==
    [total        |-> Len(df.rows),
     frauds       |-> SeqSum(Column(df.rows, "prediction")),
     rate         |-> Mean100(Column(df.rows, "prediction")),
     amount       |-> SeqSum(Column(df.rows, "amt")),
     fraud_amount |-> fraud_amount(df)]

(***************************************************************************)
(* Timestamp normalizer (lines 104-115)                                    *)
(***************************************************************************)
\* df.get("trans_minute", 0).astype(str): the default 0 is a plain int,
\* which has no astype, so the expression raises when the column is absent
MinuteRaises(df) == "trans_minute" \notin df.cols

NormalizerRaises(df) == RequiredTimeCols \subseteq df.cols /\ MinuteRaises(df)

event_time(df, r) ==
    IF RequiredTimeCols \subseteq df.cols
    THEN ToDatetime(r.trans_year, r.trans_month, r.trans_day, r.trans_hour, r.trans_minute)
    ELSE NaT

Normalize(df) ==
    [cols |-> df.cols \cup {"event_time"},
     rows |-> [i \in 1..Len(df.rows) |->
                 [df.rows[i] EXCEPT !.event_time = event_time(df, df.rows[i])]]]

(***************************************************************************)
(* Period bucketer (lines 118-125)                                         *)
(***************************************************************************)
\* start of the bucket that holds instant t (t is not NaT)
PeriodStart(granularity, t) ==
    CASE granularity = "Heure"   -> t - (t % 3600)
      [] granularity = "Jour"    -> t - (t % 86400)
      [] granularity = "Semaine" -> LET d == t \div 86400
                                    IN  (d - ((d + 3) % 7)) * 86400
      [] granularity = "Mois"    -> LET c == CivilFromDays(t \div 86400)
                                    IN  DaysFromCivil(c[1], c[2], 1) * 86400

\* .dt.to_period(f).apply(lambda r: r.start_time) calls the lambda on every
\* element; a NaT element has no start_time and the call raises.
\* .dt.date (Jour) maps NaT to NaT.
BucketerRaises(granularity, df) ==
    /\ granularity # "Jour"
    /\ \E i \in 1..Len(df.rows) : df.rows[i].event_time = NaT

period(granularity, r) ==
    IF r.event_time = NaT THEN NaT ELSE PeriodStart(granularity, r.event_time)

Bucket(granularity, df) ==
    [cols |-> df.cols \cup {"period"},
     rows |-> [i \in 1..Len(df.rows) |->
                 [df.rows[i] EXCEPT !.period = period(granularity, df.rows[i])]]]

(***************************************************************************)
(* Aggregator (lines 127-132): groupby drops the NaT key and sorts the     *)
(* keys; one entry per key with fraud_rate = 100 * mean(prediction),       *)
(* kept as the fraction num/den where den is the size of the bucket.       *)
(***************************************************************************)
RECURSIVE FirstSeen(_, _)
FirstSeen(xs, seen) ==
    IF xs = <<>> THEN <<>>
    ELSE IF Head(xs) \in seen THEN FirstSeen(Tail(xs), seen)
    ELSE <<Head(xs)>> \o FirstSeen(Tail(xs), seen \cup {Head(xs)})

\* groupby(sort=False): keys in order of first appearance
GroupKeysUnsorted(df) == FirstSeen(Column(df.rows, "period"), {NaT})

GroupKeys(df) == SortedSeq(Values(df.rows, "period") \ {NaT})

InBucket(df, k) == SelectSeq(df.rows, LAMBDA r : r.period = k)

fraude_by_period(df) ==
    LET keys == GroupKeys(df)
    IN  [j \in 1..Len(keys) |->
            LET m == Mean100(Column(InBucket(df, keys[j]), "prediction"))
            IN  [period |-> keys[j], num |-> m.num, den |-> m.den]]

(***************************************************************************)
(* Categorical breakdowns (lines 151-180)                                  *)
(***************************************************************************)
StateFull(s) == IF s \in DOMAIN US_STATES THEN US_STATES[s] ELSE s

AddStateFull(df) ==
    [cols |-> df.cols \cup {"state_full"},
     rows |-> [i \in 1..Len(df.rows) |->
                 [df.rows[i] EXCEPT !.state_full = StateFull(df.rows[i].state)]]]

fraude_cat(df) == ValueCounts(FraudRows(df.rows), "category")

fraudes_par_state(df) == ValueCounts(FraudRows(df.rows), "state_full")

(***************************************************************************)
(* Detail table (lines 195-204)                                            *)
(***************************************************************************)
ColsOrder == {"trans_number", "date", "amt", "probability", "state_full"}

DisplayCols(df) ==
    ((df.cols \ {"unnamed_0"}) \cup (IF "unnamed_0" \in df.cols THEN {"trans_number"} ELSE {}))
    \cup {"date"}

\* df_display[cols_order + other_cols] raises KeyError on a missing column
DetailsRaises(df) == ~(ColsOrder \subseteq DisplayCols(df))

fraude_details(df) ==
    LET fr == FraudRows(df.rows)
    IN  [i \in 1..Len(fr) |-> [row |-> fr[i], date |-> Strftime(fr[i].event_time)]]

(***************************************************************************)
(* The script after the load (lines 80-208), run on the table df that      *)
(* load_data returned.  The script stops at the first statement that       *)
(* raises; what was rendered before stays on the page.                     *)
(***************************************************************************)
NoViews ==
    [df |-> EmptyTable, kpis |-> NoKPIs, series |-> <<>>,
     fraude_cat |-> <<>>, fraudes_par_state |-> <<>>, fraude_details |-> <<>>]

Script(granularity, df) ==
    LET k   == KPIs(df)
        n   == Normalize(df)
        b   == Bucket(granularity, n)
        s   == AddStateFull(b)
    IN  IF NormalizerRaises(df)
        THEN [NoViews EXCEPT !.df = df, !.kpis = k] @@ [status |-> "normalizer_error"]
        ELSE IF BucketerRaises(granularity, n)
        THEN [NoViews EXCEPT !.df = n, !.kpis = k] @@ [status |-> "bucketer_error"]
        ELSE IF DetailsRaises(s)
        THEN [df |-> s, kpis |-> k, series |-> fraude_by_period(b),
              fraude_cat |-> fraude_cat(b), fraudes_par_state |-> fraudes_par_state(s),
              fraude_details |-> <<>>, status |-> "details_error"]
        ELSE [df |-> s, kpis |-> k, series |-> fraude_by_period(b),
              fraude_cat |-> fraude_cat(b), fraudes_par_state |-> fraudes_par_state(s),
              fraude_details |-> fraude_details(s), status |-> "ok"]

(***************************************************************************)
(* load_data behind @st.cache_data(ttl=60) (lines 58-62)                   *)
(***************************************************************************)
NoEntry == [present |-> FALSE, table |-> EmptyTable, age |-> 0]

Entry(t) == [present |-> TRUE, table |-> t, age |-> 0]

\* load_data that never consults the cache
LoadDataUncached(c, s3ok) ==
    IF s3ok
    THEN [raised |-> FALSE, df |-> storage, cache |-> Entry(storage), log |-> <<"ok">>]
    ELSE [raised |-> TRUE, df |-> EmptyTable, cache |-> NoEntry, log |-> <<"fail">>]

\* load_data that fetches a second time when the first fetch fails
LoadDataRetry(c, s3ok) ==
    IF c.present
    THEN [raised |-> FALSE, df |-> c.table, cache |-> c, log |-> <<>>]
    ELSE IF s3ok
    THEN [raised |-> FALSE, df |-> storage, cache |-> Entry(storage), log |-> <<"ok">>]
    ELSE [raised |-> FALSE, df |-> storage, cache |-> Entry(storage), log |-> <<"fail", "ok">>]

\* One call of load_data() on cache c; s3ok tells whether s3.get_object
\* succeeds if it is called.  A hit returns the cached table without a
\* fetch; a miss fetches, and stores the result only when the fetch succeeds.
LoadData(c, s3ok) ==
    IF c.present
    THEN [raised |-> FALSE, df |-> c.table, cache |-> c, log |-> <<>>]
    ELSE IF s3ok
    THEN [raised |-> FALSE, df |-> storage, cache |-> Entry(storage), log |-> <<"ok">>]
    ELSE [raised |-> TRUE, df |-> EmptyTable, cache |-> NoEntry, log |-> <<"fail">>]

\* a clear that leaves the entry in place
ClearNothing(c) == c

\* st.cache_data.clear() (line 73)
ClearCache(c) == NoEntry

\* a cache that hands out the cached object itself (as st.cache_resource does)
CachedAliased(entry, df) == [entry EXCEPT !.table = df]

\* st.cache_data hands every caller its own copy of the cached value: the
\* columns the script adds to df afterwards do not reach the entry
CachedAfterMutation(entry, df) == entry

(***************************************************************************)
(* One run of the script (lines 64-208)                                    *)
(***************************************************************************)
NoOut ==
    NoViews @@ [status |-> "none", granularity |-> "Heure", clicked |-> FALSE,
                fetchLog |-> <<>>, df64 |-> EmptyTable, loaded |-> EmptyTable]

LoadFailed(granularity, clicked, log, df64) ==
    NoViews @@ [status |-> "load_failed", granularity |-> granularity, clicked |-> clicked,
                fetchLog |-> log, df64 |-> df64, loaded |-> EmptyTable]

Render(granularity, clicked, s3ok64, s3ok74) ==
    /\ clicked => "button" \in widgets
    /\ granularity # "Heure" => "radio" \in widgets
    /\ LET l64 == LoadData(cache, s3ok64)
           c1  == IF clicked THEN ClearCache(l64.cache) ELSE l64.cache
           l74 == LoadData(c1, s3ok74)
           v   == Script(granularity, l74.df)
       IN  IF l64.raised
           THEN /\ out' = LoadFailed(granularity, clicked, l64.log, EmptyTable)
                /\ cache' = l64.cache
                /\ widgets' = widgets
           ELSE IF l74.raised
           THEN /\ out' = LoadFailed(granularity, clicked, l64.log \o l74.log, l64.df)
                /\ cache' = l74.cache
                /\ widgets' = widgets \cup {"button"}
           ELSE /\ out' = v @@ [granularity |-> granularity, clicked |-> clicked,
                                fetchLog |-> l64.log \o l74.log,
                                df64 |-> l64.df, loaded |-> l74.df]
                /\ cache' = CachedAfterMutation(l74.cache, v.df)
                /\ widgets' = widgets \cup {"button", "radio"}
    /\ event' = "render"
    /\ UNCHANGED storage

\* time passes; the entry is dropped when it reaches its ttl
Tick ==
    /\ cache.present
    /\ cache' = IF cache.age + TickStep >= TTL THEN NoEntry
                ELSE [cache EXCEPT !.age = @ + TickStep]
    /\ event' = "tick"
    /\ UNCHANGED <<storage, out, widgets>>

\* the upstream job replaces the object in the bucket
UpstreamChange ==
    /\ \E t \in CacheTables \ {storage} : storage' = t
    /\ event' = "upstream"
    /\ UNCHANGED <<cache, out, widgets>>

RenderStep ==
    \E g \in Granularities, clicked \in BOOLEAN, s3ok64 \in BOOLEAN, s3ok74 \in BOOLEAN :
        Render(g, clicked, s3ok64, s3ok74)

HealthyRender ==
    \E g \in Granularities, clicked \in BOOLEAN : Render(g, clicked, TRUE, TRUE)

Start ==
    /\ cache = NoEntry
    /\ out = NoOut
    /\ widgets = {}
    /\ event = "init"

Init == storage \in CacheTables /\ Start

Next == RenderStep \/ Tick \/ UpstreamChange

Spec == Init /\ [][Next]_vars

\* the pipeline on every table shape, with a fixed object in the bucket
InitPipe == storage \in PipeTables /\ Start

NextPipe == HealthyRender

SpecPipe == InitPipe /\ [][NextPipe]_vars

(***************************************************************************)
(* Properties                                                              *)
(***************************************************************************)
KpisShown == out.status \in {"normalizer_error", "bucketer_error", "details_error", "ok"}

SeriesShown == out.status \in {"details_error", "ok"}

Views(o) ==
    <<o.status, o.kpis, o.series, o.fraude_cat, o.fraudes_par_state, o.fraude_details>>

HasTime(r) == r.event_time # NaT

ValidRows(df) == SelectSeq(df.rows, HasTime)

RECURSIVE DigitsToNat(_)
DigitsToNat(ds) ==
    IF ds = <<>> THEN 0 ELSE 10 * DigitsToNat(SubSeq(ds, 1, Len(ds) - 1)) + ds[Len(ds)]

MaxDigits(rows) ==
    IF rows = <<>> THEN 0
    ELSE CHOOSE n \in {Len(rows[i].epoch) : i \in 1..Len(rows)} :
            \A i \in 1..Len(rows) : Len(rows[i].epoch) <= n

\* C1: a row whose event_time is missing is excluded from every view of a
\* completed render: the five KPIs, the buckets of the fraud-rate series,
\* the category and state breakdowns and the detail table are those of the
\* rows that have an event_time.
C1_MissingRowsExcluded ==
    out.status = "ok" =>
        LET valid == [cols |-> out.df.cols, rows |-> ValidRows(out.df)]
        IN  /\ out.kpis = KPIs(valid)
            /\ SeqSum(Column(out.series, "den")) = Len(valid.rows)
            /\ out.fraude_cat = fraude_cat(valid)
            /\ out.fraudes_par_state = fraudes_par_state(valid)
            /\ \A i \in 1..Len(out.fraude_details) : HasTime(out.fraude_details[i].row)

\* C2: a render in which the reload button is clicked and that gets past
\* the load shows the table that is in object storage at that render: the
\* cache is cleared before the table the render uses is loaded.
C2_ReloadShowsStoredData ==
    (event = "render" /\ out.clicked /\ out.status # "load_failed") =>
        /\ out.loaded = storage
        /\ out.kpis = KPIs(storage)
        /\ out.fetchLog # <<>>
        /\ out.fetchLog[Len(out.fetchLog)] = "ok"

C2_Witness ==
    /\ event = "render"
    /\ out.clicked
    /\ out.status = "ok"
    /\ out.df64 # out.loaded
    /\ out.loaded = storage

\* C3: an entry stays in the cache for less than the ttl; a render without
\* reload that finds an entry fetches nothing and uses the cached table; a
\* render that finds no entry (expired, cleared or never loaded), and every
\* render with a reload, fetches from object storage.
C3_CacheReuseAndRefetch ==
    /\ [](cache.present => cache.age < TTL)
    /\ [][event' = "render" =>
            /\ (cache.present /\ ~out'.clicked) =>
                    (out'.fetchLog = <<>> /\ out'.loaded = cache.table)
            /\ ~cache.present =>
                    /\ out'.fetchLog # <<>>
                    /\ out'.status # "load_failed" => out'.loaded = storage
            /\ out'.clicked => out'.fetchLog # <<>>]_vars

C3_Witness ==
    /\ event = "render"
    /\ ~out.clicked
    /\ out.fetchLog = <<>>
    /\ out.status = "ok"
    /\ cache.present /\ cache.age > 0

\* C4: when a fetch fails during a render the render is aborted: no KPI,
\* series, breakdown or detail output, no table in use, the failed fetch is
\* the last fetch of the render (no retry) although a cached table may have
\* been at hand; and a render is aborted at the load only for that reason.
C4_FetchFailureAborts ==
    /\ (\E i \in 1..Len(out.fetchLog) : out.fetchLog[i] = "fail") =>
            /\ out.status = "load_failed"
            /\ Views(out) = Views(LoadFailed(out.granularity, out.clicked, <<>>, EmptyTable))
            /\ out.loaded = EmptyTable /\ out.df = EmptyTable
            /\ \A i \in 1..Len(out.fetchLog) :
                   out.fetchLog[i] = "fail" <=> i = Len(out.fetchLog)
            /\ ~cache.present
    /\ out.status = "load_failed" =>
            (out.fetchLog # <<>> /\ out.fetchLog[Len(out.fetchLog)] = "fail")

C4_Witness ==
    /\ out.status = "load_failed"
    /\ out.clicked
    /\ Len(out.df64.rows) > 0
    /\ ~KpisShown

\* C5: with year, month, day and hour columns and no minute column the
\* normalizer completes and gives every row with a valid date the
\* event_time year-month-day hour:00.
C5_MinuteDefaultsToZero ==
    (/\ KpisShown
     /\ RequiredTimeCols \subseteq out.loaded.cols
     /\ "trans_minute" \notin out.loaded.cols) =>
        /\ out.status # "normalizer_error"
        /\ "event_time" \in out.df.cols
        /\ \A i \in 1..Len(out.df.rows) :
              LET r == out.df.rows[i]
                  t == ToDatetime(r.trans_year, r.trans_month, r.trans_day, r.trans_hour, 0)
              IN  t # NaT => r.event_time = t

\* C6: with an epoch column the event_time of every row is the value in
\* seconds when the longest value has 10 digits, the value / 1000 in
\* seconds when it has 13, and missing for any other digit count.
C6_EpochPath ==
    (KpisShown /\ "epoch" \in out.loaded.cols) =>
        /\ "event_time" \in out.df.cols
        /\ \A i \in 1..Len(out.df.rows) :
              LET r == out.df.rows[i]
                  n == MaxDigits(out.df.rows)
              IN  r.event_time =
                    IF n = 10 THEN DigitsToNat(r.epoch)
                    ELSE IF n = 13 THEN DigitsToNat(SubSeq(r.epoch, 1, Len(r.epoch) - 3))
                    ELSE NaT

RateIsExactPercentage ==
    /\ ~out.kpis.rate.nan
    /\ out.kpis.rate.num * out.kpis.total = 100 * out.kpis.frauds * out.kpis.rate.den
    /\ 0 <= out.kpis.rate.num
    /\ out.kpis.rate.num <= 100 * out.kpis.rate.den

BinaryPredictions(t) == \A i \in 1..Len(t.rows) : t.rows[i].prediction \in {0, 1}

\* C7 as stated: for every loaded table, the empty one and those with
\* predictions outside {0,1} included, the global fraud rate is
\* 100 * fraud count / total count and lies in [0,100].
C7_RateForEveryTable == KpisShown => RateIsExactPercentage

\* C7 as amended: for every loaded table that is not empty and whose
\* predictions are all 0 or 1, the global fraud rate is
\* 100 * fraud count / total count and lies in [0,100].
C7_RateForBinaryNonEmpty ==
    (KpisShown /\ Len(out.loaded.rows) > 0 /\ BinaryPredictions(out.loaded)) =>
        RateIsExactPercentage

C7_Witness ==
    /\ KpisShown
    /\ Len(out.loaded.rows) > 0 /\ BinaryPredictions(out.loaded)
    /\ 0 < out.kpis.frauds /\ out.kpis.frauds < out.kpis.total

NonNegativeAmounts(t) == \A i \in 1..Len(t.rows) : t.rows[i].amt >= 0

\* C8 as stated: for every loaded table the fraudulent amount KPI does not
\* exceed the analyzed amount KPI.
C8_FraudAmountBounded == KpisShown => out.kpis.fraud_amount <= out.kpis.amount

\* C8 as amended: for every loaded table without a negative amt the
\* fraudulent amount KPI does not exceed the analyzed amount KPI.
C8_FraudAmountBoundedNonNegative ==
    (KpisShown /\ NonNegativeAmounts(out.loaded)) =>
        out.kpis.fraud_amount <= out.kpis.amount

C8_Witness ==
    /\ KpisShown
    /\ NonNegativeAmounts(out.loaded)
    /\ 0 < out.kpis.fraud_amount /\ out.kpis.fraud_amount < out.kpis.amount

\* C9: the cached table never carries a derived column, and a render served
\* from the cache with the granularity of the previous render loads the
\* same table and shows the same KPIs, series, breakdowns and details.
C9_RerenderIdentical ==
    /\ [](cache.present => cache.table.cols \cap (DerivedCols \cup {"date"}) = {})
    /\ [][(/\ event' = "render"
           /\ out'.fetchLog = <<>>
           /\ out.status \notin {"none", "load_failed"}
           /\ out'.granularity = out.granularity) =>
              (Views(out') = Views(out) /\ out'.loaded = out.loaded)]_vars

C9_Witness ==
    /\ event = "render"
    /\ out.fetchLog = <<>>
    /\ out.status = "ok"
    /\ storage = out.loaded
    /\ DerivedCols \subseteq out.df.cols
    /\ out.series # <<>> /\ out.fraude_details # <<>>

====
